---- MODULE Spec2Model ----
(***************************************************************************)
(* The datastore providers of the retrieval service: the Cloud SQL MySQL   *)
(* client (blocking driver behind an executor bridge) and the Neo4j client *)
(* (native async driver), with the database each of them talks to.         *)
(***************************************************************************)
EXTENDS Integers, Sequences, FiniteSets, TLC

\* ------------------------------------------------------------------ bounds
MaxLen == 2       \* longest list handed to initialize_data; ids are 1..MaxLen
MaxTickets == 2   \* rows the tickets table may hold before insert_ticket is cut off

Ids == 1..MaxLen
Clients == {"c1", "c2"}
NULL == <<>>     \* SQL NULL / Python None for an unset field
None == <<>>     \* Optional result: <<>> for None, <<r>> for a record r
Some(r) == <<r>>

\* ------------------------------------------------------------ entity model
\* A time of day is <<hour, minute, second>>.
TimeOf(i) == IF i = 1 THEN <<8, 30, 0>> ELSE IF i = 2 THEN <<8, 30, 15>> ELSE NULL
EmbeddingOf(i) == IF i = 1 THEN <<0, 0>> ELSE IF i = 2 THEN <<1, 0>> ELSE <<1, 1>>

Airport(i) == [id |-> i, iata |-> IF i = 1 THEN "SFO" ELSE "LAX"]
Amenity(i) ==
  [id |-> i, name |-> IF i = 1 THEN "Lounge" ELSE "Cafe",
   sunday_start_hour |-> TimeOf(i),
   content |-> "content", embedding |-> EmbeddingOf(i)]
Flight(i) ==
  [id |-> i, airline |-> "UA", flight_number |-> IF i = 1 THEN "1111" ELSE "2222",
   departure_airport |-> "SFO", arrival_airport |-> "LAX"]
Policy(i) == [id |-> i, content |-> "policy", embedding |-> EmbeddingOf(i)]
Ticket(u) == [user_id |-> u, flight_number |-> "1111"]
Users == {"u1", "u2"}

\* The id lists the loader may hand over, for every length up to MaxLen: ids
\* in ascending order, in descending order, and with the last id repeated.
Ascending(n) == [k \in 1..n |-> k]
Descending(n) == [k \in 1..n |-> n + 1 - k]
Repeated(n) == [k \in 1..n |-> IF k = n /\ n > 1 THEN n - 1 ELSE k]
IdLists == UNION {{Ascending(n), Descending(n), Repeated(n)} : n \in 1..MaxLen}
BaseIds == <<1>>

Airports(ids) == [k \in 1..Len(ids) |-> Airport(ids[k])]
Amenities(ids) == [k \in 1..Len(ids) |-> Amenity(ids[k])]
Flights(ids) == [k \in 1..Len(ids) |-> Flight(ids[k])]
Policies(ids) == [k \in 1..Len(ids) |-> Policy(ids[k])]

\* An argument tuple of initialize_data: one family varies over every id list
\* while the others carry the base list.
Dataset(a, m, f, p) ==
  [airports |-> Airports(a), amenities |-> Amenities(m),
   flights |-> Flights(f), policies |-> Policies(p)]
Datasets ==
  {Dataset(l, BaseIds, BaseIds, BaseIds) : l \in IdLists} \cup
  {Dataset(BaseIds, l, BaseIds, BaseIds) : l \in IdLists} \cup
  {Dataset(BaseIds, BaseIds, l, BaseIds) : l \in IdLists} \cup
  {Dataset(BaseIds, BaseIds, BaseIds, l) : l \in IdLists}
BaseData == Dataset(BaseIds, BaseIds, BaseIds, BaseIds)

\* ------------------------------------------------------------ conversions
\* Text is a sequence of one-character strings.
Digits == <<"0", "1", "2", "3", "4", "5", "6", "7", "8", "9">>
DigitStr(n) == Digits[n + 1]
DigitVal(ch) == (CHOOSE k \in 1..Len(Digits) : Digits[k] = ch) - 1
TwoDigits(n) == <<DigitStr(n \div 10), DigitStr(n % 10)>>

\* f"{a.embedding}": the bracketed, comma-separated text of a vector.
RECURSIVE JoinComma(_)
JoinComma(v) ==
  IF Len(v) = 0 THEN <<>>
  ELSE IF Len(v) = 1 THEN <<DigitStr(v[1])>>
  ELSE <<DigitStr(v[1]), ",">> \o JoinComma(Tail(v))
FormatEmbedding(v) == <<"[">> \o JoinComma(v) \o <<"]">>

\* string_to_vector(:embedding): the stored vector of a bracketed text.
StringToVector(s) ==
  LET inner == SubSeq(s, 2, Len(s) - 1)
      items == SelectSeq(inner, LAMBDA ch : ch # ",")
  IN [n \in 1..Len(items) |-> DigitVal(items[n])]

\* vector_to_string(embedding): the text the server gives back for a vector.
VectorToString(v) == FormatEmbedding(v)

\* DATE_FORMAT(col, '%H:%i'): hour and minute of a TIME value, NULL for NULL.
DateFormatHM(t) ==
  IF t = NULL THEN NULL ELSE TwoDigits(t[1]) \o <<":">> \o TwoDigits(t[2])

\* The time-of-day field of the record model reads "HH:MM" text back as a time.
ParseTime(s) ==
  IF s = NULL THEN NULL
  ELSE <<10 * DigitVal(s[1]) + DigitVal(s[2]), 10 * DigitVal(s[4]) + DigitVal(s[5]), 0>>

\* The embedding field of the record model reads bracketed text back as a list.
ParseEmbedding(s) == IF s = NULL THEN NULL ELSE StringToVector(s)

\* -------------------------------------------------------- the MySQL server
\* A table either does not exist or holds its rows in insertion order; idx is
\* the set of vector indexes that exist.
NoTable == [exists |-> FALSE, rows |-> <<>>]
EmptyTable == [exists |-> TRUE, rows |-> <<>>]
TableNames == {"airports", "amenities", "flights", "tickets", "policies"}
EmptyDb == [tables |-> [t \in TableNames |-> NoTable], idx |-> {}]

IndexOf(tbl) ==
  IF tbl = "amenities" THEN "amenities_index"
  ELSE IF tbl = "policies" THEN "policies_index" ELSE "no_index"
HasIndex(d, tbl) == IndexOf(tbl) \in d.idx
HasPrimaryKey(tbl) == tbl # "tickets"

SetTable(d, tbl, t) == [d EXCEPT !.tables[tbl] = t]
RowIds(rows) == {rows[k].id : k \in 1..Len(rows)}

\* INSERT ... VALUES with a list of parameter sets: the rows go in one by one
\* (autocommit) and the first row whose primary key is already there stops it.
RECURSIVE InsertRows(_, _, _)
InsertRows(t, rows, pk) ==
  IF Len(rows) = 0 THEN [table |-> t, err |-> FALSE]
  ELSE IF pk /\ rows[1].id \in RowIds(t.rows) THEN [table |-> t, err |-> TRUE]
  ELSE InsertRows([t EXCEPT !.rows = Append(@, rows[1])], Tail(rows), pk)

\* One statement against the server: the database after it and whether the
\* server refused it.  DDL on a table whose vector index exists is refused.
ExecStmt(d, s) ==
  LET t == d.tables[s.tbl] IN
  CASE s.op = "DROP" ->
         IF HasIndex(d, s.tbl) THEN [db |-> d, err |-> TRUE]
         ELSE [db |-> SetTable(d, s.tbl, NoTable), err |-> FALSE]
    [] s.op = "CREATE" ->
         IF HasIndex(d, s.tbl) \/ t.exists THEN [db |-> d, err |-> TRUE]
         ELSE [db |-> SetTable(d, s.tbl, EmptyTable), err |-> FALSE]
    [] s.op = "INSERT" ->
         IF ~t.exists THEN [db |-> d, err |-> TRUE]
         ELSE LET r == InsertRows(t, s.rows, HasPrimaryKey(s.tbl))
              IN [db |-> SetTable(d, s.tbl, r.table), err |-> r.err]
    [] s.op = "CREATE_INDEX" ->
         IF ~t.exists \/ HasIndex(d, s.tbl) THEN [db |-> d, err |-> TRUE]
         ELSE [db |-> [d EXCEPT !.idx = @ \cup {IndexOf(s.tbl)}], err |-> FALSE]
    [] s.op = "DROP_INDEX" ->
         [db |-> [d EXCEPT !.idx = @ \ {IndexOf(s.tbl)}], err |-> FALSE]

\* What the statement log keeps of a statement: its kind, its table and
\* whether that table's vector index existed when it was issued.
LogEntry(d, s) == [op |-> s.op, tbl |-> s.tbl, indexed |-> HasIndex(d, s.tbl)]

\* conn.execute of the statements in order on one connection; the first
\* refused statement raises and the rest are not issued.
RECURSIVE RunStmts(_, _, _)
RunStmts(d, stmts, log) ==
  IF Len(stmts) = 0 THEN [db |-> d, log |-> log, err |-> FALSE]
  ELSE LET r == ExecStmt(d, stmts[1])
           l == Append(log, LogEntry(d, stmts[1]))
       IN IF r.err THEN [db |-> r.db, log |-> l, err |-> TRUE]
          ELSE RunStmts(r.db, Tail(stmts), l)

Stmt(o, tbl) == [op |-> o, tbl |-> tbl, rows |-> <<>>]
Insert(tbl, rows) == [op |-> "INSERT", tbl |-> tbl, rows |-> rows]

\* The rows initialize_data_sync binds for amenities and policies: the
\* embedding goes in as text and is stored through string_to_vector.
AmenityRow(a) == [a EXCEPT !.embedding = StringToVector(FormatEmbedding(a.embedding))]
PolicyRow(p) == [p EXCEPT !.embedding = StringToVector(FormatEmbedding(p.embedding))]
AmenityRows(l) == [k \in 1..Len(l) |-> AmenityRow(l[k])]
PolicyRows(l) == [k \in 1..Len(l) |-> PolicyRow(l[k])]

InitializeDataStmts(data) ==
  << Stmt("DROP", "airports"), Stmt("CREATE", "airports"),
     Insert("airports", data.airports),
     Stmt("DROP", "amenities"), Stmt("CREATE", "amenities"),
     Insert("amenities", AmenityRows(data.amenities)),
     Stmt("CREATE_INDEX", "amenities"),
     Stmt("DROP", "flights"), Stmt("CREATE", "flights"),
     Insert("flights", data.flights),
     Stmt("DROP", "tickets"), Stmt("CREATE", "tickets"),
     Stmt("DROP", "policies"), Stmt("CREATE", "policies"),
     Insert("policies", PolicyRows(data.policies)),
     Stmt("CREATE_INDEX", "policies") >>

initialize_data_sync(d, data) == RunStmts(d, InitializeDataStmts(data), <<>>)

\* SELECT ... ORDER BY id ASC: the rows by ascending primary key.
RECURSIVE SortById(_)
SortById(rows) ==
  IF Len(rows) = 0 THEN <<>>
  ELSE LET m == CHOOSE k \in 1..Len(rows) :
                  \A j \in 1..Len(rows) : rows[k].id <= rows[j].id
           rest == [k \in 1..(Len(rows) - 1) |-> IF k < m THEN rows[k] ELSE rows[k + 1]]
       IN <<rows[m]>> \o SortById(rest)

\* SELECT ... WHERE id = :id, then fetchone(): the first matching row, if any.
RowsWithId(rows, i) == SelectSeq(rows, LAMBDA r : r.id = i)
FetchOne(rows) == IF Len(rows) = 0 THEN None ELSE Some(rows[1])

\* The record model (models.Airport / Amenity / Flight / Policy) validating a
\* row mapping: fields the row lacks stay unset, text fields are parsed.
ValidateAirport(r) == r
ValidateFlight(r) == r
ValidateAmenityExport(r) ==
  [r EXCEPT !.sunday_start_hour = ParseTime(@), !.embedding = ParseEmbedding(@)]
ValidateAmenityLookup(r) ==
  [id |-> r.id, name |-> r.name, sunday_start_hour |-> NULL,
   content |-> NULL, embedding |-> NULL]
ValidatePolicy(r) == [r EXCEPT !.embedding = ParseEmbedding(@)]

\* The SELECT lists of export_data_sync for amenities and policies.
AmenityExportRow(r) ==
  [r EXCEPT !.sunday_start_hour = DateFormatHM(@), !.embedding = VectorToString(@)]
PolicyExportRow(r) == [r EXCEPT !.embedding = VectorToString(@)]
\* The SELECT list of get_amenity_sync.
AmenityLookupRow(r) == [id |-> r.id, name |-> r.name]

Missing(d, tbls) == \E t \in tbls : ~d.tables[t].exists

export_data_sync(d) ==
  IF Missing(d, {"airports", "amenities", "flights", "policies"})
  THEN [err |-> TRUE, result |-> None]
  ELSE [err |-> FALSE,
        result |->
          LET airport_results == SortById(d.tables["airports"].rows)
              amenity_results == SortById(d.tables["amenities"].rows)
              flights_results == SortById(d.tables["flights"].rows)
              policy_results == SortById(d.tables["policies"].rows)
          IN [airports |->
                [k \in 1..Len(airport_results) |-> ValidateAirport(airport_results[k])],
              amenities |->
                [k \in 1..Len(amenity_results) |->
                   ValidateAmenityExport(AmenityExportRow(amenity_results[k]))],
              flights |->
                [k \in 1..Len(flights_results) |-> ValidateFlight(flights_results[k])],
              policies |->
                [k \in 1..Len(policy_results) |->
                   ValidatePolicy(PolicyExportRow(policy_results[k]))]]]

\* An airport lookup whose WHERE clause is lost: the first row of the table.
get_airport_by_id_sync_no_where(d, i) ==
  IF Missing(d, {"airports"}) THEN [err |-> TRUE, result |-> None]
  ELSE [err |-> FALSE, result |-> FetchOne(d.tables["airports"].rows)]

get_airport_by_id_sync(d, i) ==
  IF Missing(d, {"airports"}) THEN [err |-> TRUE, result |-> None]
  ELSE LET result == FetchOne(RowsWithId(d.tables["airports"].rows, i))
       IN [err |-> FALSE,
           result |-> IF result = None THEN None ELSE Some(ValidateAirport(result[1]))]

get_amenity_sync(d, i) ==
  IF Missing(d, {"amenities"}) THEN [err |-> TRUE, result |-> None]
  ELSE LET result == FetchOne(RowsWithId(d.tables["amenities"].rows, i))
       IN [err |-> FALSE,
           result |-> IF result = None THEN None
                      ELSE Some(ValidateAmenityLookup(AmenityLookupRow(result[1])))]

get_flight_sync(d, i) ==
  IF Missing(d, {"flights"}) THEN [err |-> TRUE, result |-> None]
  ELSE LET result == FetchOne(RowsWithId(d.tables["flights"].rows, i))
       IN [err |-> FALSE,
           result |-> IF result = None THEN None ELSE Some(ValidateFlight(result[1]))]

\* An insert that skips a ticket the table already holds.
insert_ticket_sync_unique(d, t) ==
  IF d.tables["tickets"].exists /\ \E k \in 1..Len(d.tables["tickets"].rows) :
                                     d.tables["tickets"].rows[k] = t
  THEN [db |-> d, log |-> <<LogEntry(d, Insert("tickets", <<t>>))>>, err |-> FALSE]
  ELSE RunStmts(d, <<Insert("tickets", <<t>>)>>, <<>>)

insert_ticket_sync(d, t) == RunStmts(d, <<Insert("tickets", <<t>>)>>, <<>>)

\* The record model (models.Ticket) validating a row mapping.
ValidateTicket(r) == r

\* SELECT * FROM tickets WHERE user_id = :user_id, then fetchall().
list_tickets_sync(d, user_id) ==
  IF Missing(d, {"tickets"}) THEN [err |-> TRUE, result |-> <<>>]
  ELSE LET results == SelectSeq(d.tables["tickets"].rows, LAMBDA r : r.user_id = user_id)
       IN [err |-> FALSE,
           result |-> [k \in 1..Len(results) |-> ValidateTicket(results[k])]]

\* The two CALL mysql.drop_vector_index of close, in order; stopAt > 0 makes
\* the stopAt-th call raise (the driver or the server failing it).
RECURSIVE DropIndexes(_, _, _, _)
DropIndexes(d, tbls, log, stopAt) ==
  IF Len(tbls) = 0 THEN [db |-> d, log |-> log, err |-> FALSE]
  ELSE LET s == Stmt("DROP_INDEX", tbls[1])
           l == Append(log, LogEntry(d, s))
       IN IF stopAt = 1 THEN [db |-> d, log |-> l, err |-> TRUE]
          ELSE DropIndexes(ExecStmt(d, s).db, Tail(tbls), l, stopAt - 1)

\* ------------------------------------------------------- flight queries
\* Airline and airport texts, and the case mapping of LOWER() on them.
SFO == <<"S", "F", "O">>
LAX == <<"L", "A", "X">>
United == <<"U", "n", "i", "t", "e", "d">>
UpperCase == <<"A", "F", "L", "O", "S", "U", "X">>
LowerCase == <<"a", "f", "l", "o", "s", "u", "x">>
LowerChar(ch) ==
  IF \E k \in 1..Len(UpperCase) : UpperCase[k] = ch
  THEN LowerCase[CHOOSE k \in 1..Len(UpperCase) : UpperCase[k] = ch]
  ELSE ch
LOWER(s) == [k \in 1..Len(s) |-> LowerChar(s[k])]

\* s LIKE p: % stands for any run of characters, _ for any one character,
\* every other character of the pattern for itself.
RECURSIVE Like(_, _)
Like(s, p) ==
  IF Len(p) = 0 THEN Len(s) = 0
  ELSE IF Head(p) = "%" THEN Like(s, Tail(p)) \/ (Len(s) > 0 /\ Like(Tail(s), p))
  ELSE /\ Len(s) > 0
       /\ (Head(p) = "_" \/ Head(p) = Head(s))
       /\ Like(Tail(s), Tail(p))

\* A timestamp is <<year, month, day, hour, minute>>, compared field by field.
Earlier(a, b) ==
  \E k \in 1..Len(a) : a[k] < b[k] /\ \A j \in 1..(k - 1) : a[j] = b[j]
IsLeap(y) == (y % 4 = 0 /\ y % 100 # 0) \/ y % 400 = 0
DaysInMonth(y, m) ==
  IF m = 2 THEN (IF IsLeap(y) THEN 29 ELSE 28)
  ELSE IF m \in {4, 6, 9, 11} THEN 30 ELSE 31
\* DATE_ADD(t, interval 1 day)
DateAddDay(t) ==
  IF t[3] < DaysInMonth(t[1], t[2]) THEN [t EXCEPT ![3] = @ + 1]
  ELSE IF t[2] < 12 THEN [t EXCEPT ![2] = @ + 1, ![3] = 1]
  ELSE [t EXCEPT ![1] = @ + 1, ![2] = 1, ![3] = 1]

\* The number a run of digits reads as.
IsDigits(s) == \A k \in 1..Len(s) : \E d \in 1..Len(Digits) : Digits[d] = s[k]
RECURSIVE Number(_)
Number(s) ==
  IF Len(s) = 0 THEN 0
  ELSE 10 * Number(SubSeq(s, 1, Len(s) - 1)) + DigitVal(s[Len(s)])

\* The calendar date of the text "YYYY-MM-DD", or <<>> when it is not one.
ParseDate(s) ==
  IF /\ Len(s) >= 10
     /\ s[5] = "-" /\ s[8] = "-"
     /\ IsDigits(SubSeq(s, 1, 4)) /\ IsDigits(SubSeq(s, 6, 7)) /\ IsDigits(SubSeq(s, 9, 10))
  THEN LET y == Number(SubSeq(s, 1, 4))
           m == Number(SubSeq(s, 6, 7))
           d == Number(SubSeq(s, 9, 10))
       IN IF y >= 1 /\ m \in 1..12 /\ d >= 1 /\ d <= DaysInMonth(y, m)
          THEN <<y, m, d>> ELSE <<>>
  ELSE <<>>

\* datetime.strptime(date, "%Y-%m-%d"): midnight of the date; <<>> stands for
\* the ValueError of a text that is not a date.
Strptime(s) ==
  IF Len(s) = 10 /\ ParseDate(s) # <<>> THEN ParseDate(s) \o <<0, 0>> ELSE <<>>

\* CAST(:departure_time AS DATETIME) of "YYYY-MM-DDTHH:MM": NULL when the
\* text is not a timestamp.
CastDatetime(s) ==
  IF /\ Len(s) = 16
     /\ ParseDate(s) # <<>>
     /\ s[11] = "T" /\ s[14] = ":"
     /\ IsDigits(SubSeq(s, 12, 13)) /\ IsDigits(SubSeq(s, 15, 16))
     /\ Number(SubSeq(s, 12, 13)) < 24 /\ Number(SubSeq(s, 15, 16)) < 60
  THEN ParseDate(s) \o <<Number(SubSeq(s, 12, 13)), Number(SubSeq(s, 15, 16))>>
  ELSE NULL

\* LIMIT 10 of the two flight queries.
SearchLimit == 10
Limit(rows, n) == SubSeq(rows, 1, IF Len(rows) < n THEN Len(rows) ELSE n)

\* (CAST(:v AS CHAR(255)) IS NULL OR LOWER(col) LIKE LOWER(:v)) for an
\* optional filter value v.
AirportFilter(col, v) == v = None \/ Like(LOWER(col), LOWER(v[1]))

\* A window that also takes the first instant of the next day.
InWindowInclusiveEnd(t, start) ==
  ~Earlier(t, start) /\ ~Earlier(DateAddDay(start), t)

\* departure_time >= :datetime AND departure_time < DATE_ADD(:datetime, interval 1 day)
InWindow(t, start) == ~Earlier(t, start) /\ Earlier(t, DateAddDay(start))

search_flights_by_airports_sync(d, date, departure_airport, arrival_airport) ==
  LET datetime == Strptime(date) IN
  IF datetime = <<>> THEN [outcome |-> "ValueError", result |-> <<>>]
  ELSE IF Missing(d, {"flights"}) THEN [outcome |-> "DriverError", result |-> <<>>]
  ELSE LET results ==
             Limit(SelectSeq(d.tables["flights"].rows,
                             LAMBDA r : /\ AirportFilter(r.departure_airport, departure_airport)
                                        /\ AirportFilter(r.arrival_airport, arrival_airport)
                                        /\ InWindow(r.departure_time, datetime)),
                   SearchLimit)
       IN [outcome |-> "ok",
           result |-> [k \in 1..Len(results) |-> ValidateFlight(results[k])]]

validate_ticket_sync(d, airline, flight_number, departure_airport, departure_time) ==
  IF Missing(d, {"flights"}) THEN [outcome |-> "DriverError", result |-> None]
  ELSE LET t == CastDatetime(departure_time)
           result ==
             FetchOne(Limit(SelectSeq(d.tables["flights"].rows,
                                      LAMBDA r : /\ Like(LOWER(r.airline), LOWER(airline))
                                                 /\ Like(LOWER(r.flight_number), LOWER(flight_number))
                                                 /\ Like(LOWER(r.departure_airport),
                                                         LOWER(departure_airport))
                                                 /\ t # NULL
                                                 /\ r.departure_time = t),
                            SearchLimit))
       IN [outcome |-> "ok",
           result |-> IF result = None THEN None ELSE Some(ValidateFlight(result[1]))]

\* ------------------------------------------------------------------ state
VARIABLES
  kind,     \* the configured provider: "cloudsql-mysql" or "neo4j"
  client,   \* per client handle: "none" (not created), "open", "closed"
  db,       \* the MySQL database the clients share
  graph,    \* the nodes of the Neo4j database, in creation order
  loaded,   \* <<data>> while the store holds a completed initialize_data(data)
  last,     \* the most recent call: what was asked and how it ended
  bridge,   \* the bridged call in flight: its blocking core and its awaiting caller
  session,  \* the Neo4j session of the initialize_data call in flight
  script    \* run_database_init.main: where it stands and what it has done

vars == <<kind, client, db, graph, loaded, last, bridge, session, script>>

MYSQL_IDENTIFIER == "cloudsql-mysql"
NEO4J_IDENTIFIER == "neo4j"

\* The thread the body of a client method runs on.  Every MySQL method but
\* close hands its blocking core to loop.run_in_executor; close is itself the
\* coroutine that calls the driver; the Neo4j methods are native coroutines.
DriverCallThread(k, o) ==
  IF k = MYSQL_IDENTIFIER /\ o # "close" THEN "worker" ELSE "event_loop"

\* How a call ended and what it did on the way.
\*   conn     - a connection was taken from the client's pool / driver
\*   was      - the handle's state when the call was made
\*   disposed - close() reached pool.dispose() / driver.close() returned
\*   thread   - the thread the call's driver work ran on
Call(o, c, arg, outcome, result, log, conn, disposed) ==
  [op |-> o, arg |-> arg, outcome |-> outcome, result |-> result,
   log |-> log, conn |-> conn, was |-> client[c], disposed |-> disposed,
   thread |-> DriverCallThread(kind, o)]
NoCall ==
  [op |-> "none", arg |-> <<>>, outcome |-> "ok", result |-> None,
   log |-> <<>>, conn |-> FALSE, was |-> "none", disposed |-> FALSE,
   thread |-> "event_loop"]

\* The transport to the server may fail when a connection is taken.
Faults == {"none", "connect"}

\* No bridged call in flight.
\*   work   - the executor's work item: none, queued, running, finished, dropped
\*   caller - the coroutine awaiting it: idle, awaiting, cancelled, resumed
\*   todo   - the statements the running core has still to issue
\*   pre    - the database as the core found it when its thread started
NoBridge ==
  [op |-> "none", arg |-> <<>>, work |-> "none", caller |-> "idle", todo |-> <<>>,
   runs |-> 0, pre |-> EmptyDb, err |-> FALSE, delivered |-> FALSE]

\* No initialize_data call in flight on the Neo4j session.
\*   pc       - where the call's coroutine stands: idle, open (between two
\*              awaits), awaiting (suspended in await session.execute_write)
\*   data     - the call's argument lists, <<>> before the first call
\*   todo     - the write transactions the call has still to start
\*   inflight - the write transactions started and not yet completed
\*   events   - every begin and commit of the call, in the order they happened
NoSession ==
  [pc |-> "idle", client |-> "none", data |-> None, todo |-> <<>>, inflight |-> <<>>,
   events |-> <<>>, err |-> FALSE]

\* main before its first statement.
\*   pc      - the statement main is at: start, load, initialize, close, done
\*   created - datastore.create has returned a client to main
\*   data    - the four lists load_dataset returned, once it has
\*   closes  - the ds.close() calls main has made
\*   outcome - running, returned (main ended normally), raised
NoScript ==
  [pc |-> "start", created |-> FALSE, data |-> None, closes |-> 0, outcome |-> "running"]

Init ==
  /\ bridge = NoBridge
  /\ session = NoSession
  /\ script = NoScript
  /\ kind \in {MYSQL_IDENTIFIER, NEO4J_IDENTIFIER}
  /\ client = [c \in Clients |-> "none"]
  /\ db = EmptyDb
  /\ graph = <<>>
  /\ loaded = <<>>
  /\ last = NoCall

\* ----------------------------------------------------------- MySQL client
Created(c) == client[c] # "none"

\* self.__pool.connect(): the engine hands out a connection whenever the
\* server is reachable, also after dispose(), which only empties the pool.
PoolConnect(c, fault) == Created(c) /\ fault = "none"

ConnectFailed(o, c, arg) ==
  /\ last' = Call(o, c, arg, "DriverError", None, <<>>, FALSE, FALSE)
  /\ UNCHANGED <<script, session, bridge, kind, client, db, graph, loaded>>

\* create: the engine is built with a connection creator; nothing connects.
MyCreate(c) ==
  /\ kind = MYSQL_IDENTIFIER
  /\ client[c] = "none"
  /\ client' = [client EXCEPT ![c] = "open"]
  /\ last' = Call("create", c, <<>>, "ok", None, <<>>, FALSE, FALSE)
  /\ UNCHANGED <<script, session, bridge, kind, db, graph, loaded>>

MyInitializeData(c, data, fault) ==
  /\ kind = MYSQL_IDENTIFIER
  /\ Created(c)
  /\ IF ~PoolConnect(c, fault) THEN ConnectFailed("initialize_data", c, data)
     ELSE LET r == initialize_data_sync(db, data) IN
          /\ db' = r.db
          /\ loaded' = IF r.err THEN <<>> ELSE <<data>>
          /\ last' = Call("initialize_data", c, data,
                          IF r.err THEN "DriverError" ELSE "ok", None, r.log, TRUE, FALSE)
          /\ UNCHANGED <<script, session, bridge, kind, client, graph>>

\* A bridged read: the blocking core on a pool connection, its result handed
\* back to the caller.
MyRead(o, c, arg, r, fault) ==
  IF ~PoolConnect(c, fault) THEN ConnectFailed(o, c, arg)
  ELSE /\ last' = Call(o, c, arg, IF r.err THEN "DriverError" ELSE "ok",
                       r.result, <<>>, TRUE, FALSE)
       /\ UNCHANGED <<script, session, bridge, kind, client, db, graph, loaded>>

MyExportData(c, fault) ==
  /\ kind = MYSQL_IDENTIFIER
  /\ Created(c)
  /\ MyRead("export_data", c, <<>>, export_data_sync(db), fault)

MyGetAirportById(c, i, fault) ==
  /\ kind = MYSQL_IDENTIFIER
  /\ Created(c)
  /\ MyRead("get_airport_by_id", c, i, get_airport_by_id_sync(db, i), fault)

MyGetAmenity(c, i, fault) ==
  /\ kind = MYSQL_IDENTIFIER
  /\ Created(c)
  /\ MyRead("get_amenity", c, i, get_amenity_sync(db, i), fault)

MyGetFlight(c, i, fault) ==
  /\ kind = MYSQL_IDENTIFIER
  /\ Created(c)
  /\ MyRead("get_flight", c, i, get_flight_sync(db, i), fault)

MyInsertTicket(c, u, fault) ==
  /\ kind = MYSQL_IDENTIFIER
  /\ Created(c)
  /\ Len(db.tables["tickets"].rows) < MaxTickets
  /\ IF ~PoolConnect(c, fault) THEN ConnectFailed("insert_ticket", c, u)
     ELSE LET r == insert_ticket_sync(db, Ticket(u)) IN
          /\ db' = r.db
          /\ last' = Call("insert_ticket", c, u,
                          IF r.err THEN "DriverError" ELSE "ok", None, r.log, TRUE, FALSE)
          /\ UNCHANGED <<script, session, bridge, kind, client, graph, loaded>>

MyListTickets(c, u, fault) ==
  /\ kind = MYSQL_IDENTIFIER
  /\ Created(c)
  /\ MyRead("list_tickets", c, u, list_tickets_sync(db, u), fault)

\* close: take a connection, drop amenities_index then policies_index, and
\* only then dispose the pool; nothing catches a failure on the way.
MyClose(c, fault, stopAt) ==
  /\ kind = MYSQL_IDENTIFIER
  /\ Created(c)
  /\ IF ~PoolConnect(c, fault) THEN ConnectFailed("close", c, <<>>)
     ELSE LET r == DropIndexes(db, <<"amenities", "policies">>, <<>>, stopAt) IN
          /\ db' = r.db
          /\ client' = [client EXCEPT ![c] = IF r.err THEN @ ELSE "closed"]
          /\ last' = Call("close", c, <<>>, IF r.err THEN "DriverError" ELSE "ok",
                          None, r.log, TRUE, ~r.err)
          /\ UNCHANGED <<script, session, bridge, kind, graph, loaded>>

\* ----------------------------------------------------------- Neo4j client
\* The properties each CREATE statement of initialize_data writes.
AirportNode(a) == [label |-> "Airport", id |-> a.id, props |-> a]
AmenityNode(a) == [label |-> "Amenity", id |-> a.id, props |-> [id |-> a.id, name |-> a.name]]
FlightNode(f) == [label |-> "Flight", id |-> f.id, props |-> f]
PolicyNode(p) == [label |-> "Policy", id |-> p.id, props |-> p]

\* The write transactions of one initialize_data call, in the order the
\* session runs them: delete_all, then one CREATE per record.
NeoWrites(data) ==
  [k \in 1..Len(data.airports) |-> AirportNode(data.airports[k])] \o
  [k \in 1..Len(data.amenities) |-> AmenityNode(data.amenities[k])] \o
  [k \in 1..Len(data.flights) |-> FlightNode(data.flights[k])] \o
  [k \in 1..Len(data.policies) |-> PolicyNode(data.policies[k])]
NeoLog(nodes) ==
  <<[op |-> "delete_all", tbl |-> "*", indexed |-> FALSE]>> \o
  [k \in 1..Len(nodes) |-> [op |-> "CREATE", tbl |-> nodes[k].label, indexed |-> FALSE]]

\* The methods whose body is a bare raise NotImplementedError.
NeoUnsupportedMethods ==
  {"export_data", "get_airport_by_id", "get_airport_by_iata", "search_airports",
   "amenities_search", "get_flight", "search_flights_by_number",
   "search_flights_by_airports", "validate_ticket", "insert_ticket",
   "list_tickets", "policies_search"}

\* A session on the driver reaches the server unless the transport fails; a
\* driver that was closed either refuses or reconnects, by driver version.
DriverSession(c, fault) == Created(c) /\ fault = "none"

NeoCreate(c) ==
  /\ kind = NEO4J_IDENTIFIER
  /\ client[c] = "none"
  /\ client' = [client EXCEPT ![c] = "open"]
  /\ last' = Call("create", c, <<>>, "ok", None, <<>>, FALSE, FALSE)
  /\ UNCHANGED <<script, session, bridge, kind, db, graph, loaded>>

NeoInitializeData(c, data, fault) ==
  /\ kind = NEO4J_IDENTIFIER
  /\ Created(c)
  /\ IF ~DriverSession(c, fault) THEN ConnectFailed("initialize_data", c, data)
     ELSE /\ graph' = NeoWrites(data)
          /\ loaded' = <<data>>
          /\ last' = Call("initialize_data", c, data, "ok", None,
                          NeoLog(NeoWrites(data)), TRUE, FALSE)
          /\ UNCHANGED <<script, session, bridge, kind, client, db>>

\* A ticket listing that answers with an empty list instead of raising.
NeoUnsupportedOutcomeSilent(m) ==
  IF m = "list_tickets" THEN "ok" ELSE "NotImplementedError"

\* The outcome of a method of an unsupported family.
NeoUnsupportedOutcome(m) == "NotImplementedError"

NeoUnsupported(c, m, arg) ==
  /\ kind = NEO4J_IDENTIFIER
  /\ Created(c)
  /\ last' = Call(m, c, arg, NeoUnsupportedOutcome(m), None, <<>>, FALSE, FALSE)
  /\ UNCHANGED <<script, session, bridge, kind, client, db, graph, loaded>>

\* MATCH (amenity: Amenity {id: $id}) RETURN amenity, then result.single().
NeoMatchAmenity(nodes, i) ==
  SelectSeq(nodes, LAMBDA n : n.label = "Amenity" /\ n.id = i)

NeoGetAmenity(c, i, fault) ==
  /\ kind = NEO4J_IDENTIFIER
  /\ Created(c)
  /\ IF ~DriverSession(c, fault) THEN ConnectFailed("get_amenity", c, i)
     ELSE LET record == FetchOne(NeoMatchAmenity(graph, i)) IN
          /\ last' = Call("get_amenity", c, i, "ok",
                          IF record = None THEN None
                          ELSE Some(ValidateAmenityLookup(record[1].props)),
                          <<>>, TRUE, FALSE)
          /\ UNCHANGED <<script, session, bridge, kind, client, db, graph, loaded>>

\* close: await driver.close(); only ssl.SSLError is caught, and its handler
\* calls logging, a name the module never imports.
NeoCloseFaults == {"none", "ssl", "transport"}
NeoCloseOutcome(fault) ==
  CASE fault = "none" -> "ok"
    [] fault = "ssl" -> "NameError"
    [] fault = "transport" -> "DriverError"

NeoClose(c, fault) ==
  /\ kind = NEO4J_IDENTIFIER
  /\ Created(c)
  /\ client' = [client EXCEPT ![c] = IF fault = "none" THEN "closed" ELSE @]
  /\ last' = Call("close", c, <<>>, NeoCloseOutcome(fault), None, <<>>,
                  FALSE, fault = "none")
  /\ UNCHANGED <<script, session, bridge, kind, db, graph, loaded>>

\* ---------------------------------------------------------- specification
\* Every call a caller can make, for callers holding the handles cs, loading
\* the datasets ds, with the transport failing as fs allows.
Step(cs, ds, fs, stops) ==
  \/ \E c \in cs : MyCreate(c)
  \/ \E c \in cs, data \in ds, fault \in fs : MyInitializeData(c, data, fault)
  \/ \E c \in cs, fault \in fs : MyExportData(c, fault)
  \/ \E c \in cs, i \in Ids, fault \in fs : MyGetAirportById(c, i, fault)
  \/ \E c \in cs, i \in Ids, fault \in fs : MyGetAmenity(c, i, fault)
  \/ \E c \in cs, i \in Ids, fault \in fs : MyGetFlight(c, i, fault)
  \/ \E c \in cs, fault \in fs, stopAt \in stops : MyClose(c, fault, stopAt)
  \/ \E c \in cs : NeoCreate(c)
  \/ \E c \in cs, data \in ds, fault \in fs : NeoInitializeData(c, data, fault)
  \/ \E c \in cs, m \in NeoUnsupportedMethods, i \in Ids : NeoUnsupported(c, m, i)
  \/ \E c \in cs, i \in Ids, fault \in fs : NeoGetAmenity(c, i, fault)
  \/ \E c \in cs, fault \in (IF fs = {"none"} THEN fs ELSE NeoCloseFaults) : NeoClose(c, fault)

\* The clients' lifecycle: two handles on one database, a transport that may
\* fail, tickets, and the base dataset as the load.
Next ==
  \/ Step(Clients, {BaseData}, Faults, 0..2)
  \/ \E c \in Clients, u \in Users, fault \in Faults : MyInsertTicket(c, u, fault)
  \/ \E c \in Clients, u \in Users, fault \in Faults : MyListTickets(c, u, fault)

Spec == Init /\ [][Next]_vars

\* The data path: one handle, a transport that holds, every dataset.
NextData == Step({"c1"}, Datasets, {"none"}, {0})

SpecData == Init /\ [][NextData]_vars

\* ------------------------------------------------------------ the bridge
\* loop.run_in_executor(None, core, *args) and the await on it, for the two
\* mutating operations.  One bridged call is in flight at a time.
CoreStmts(o, arg) ==
  IF o = "initialize_data" THEN InitializeDataStmts(arg)
  ELSE <<Insert("tickets", <<Ticket(arg)>>)>>

BridgeIdle == bridge.work \in {"none", "finished", "dropped"} /\ bridge.caller # "awaiting"

\* The caller submits the blocking core to the executor and awaits it.
BridgeSubmit(c, o, arg) ==
  /\ kind = MYSQL_IDENTIFIER
  /\ Created(c)
  /\ BridgeIdle
  /\ o = "insert_ticket" => Len(db.tables["tickets"].rows) < MaxTickets
  /\ bridge' = [op |-> o, arg |-> arg, work |-> "queued", caller |-> "awaiting",
                todo |-> CoreStmts(o, arg), runs |-> 0, pre |-> db,
                err |-> FALSE, delivered |-> FALSE]
  /\ UNCHANGED <<script, session, kind, client, db, graph, loaded, last>>

\* A worker thread takes the queued core and enters it.
BridgeStart ==
  /\ bridge.work = "queued"
  /\ bridge' = [bridge EXCEPT !.work = "running", !.runs = @ + 1, !.pre = db]
  /\ UNCHANGED <<script, session, kind, client, db, graph, loaded, last>>

\* The running core issues its next statement; a refused statement raises.
BridgeExec ==
  /\ bridge.work = "running"
  /\ bridge.todo # <<>>
  /\ LET r == ExecStmt(db, Head(bridge.todo)) IN
     /\ db' = r.db
     /\ bridge' = IF r.err THEN [bridge EXCEPT !.work = "finished", !.err = TRUE]
                  ELSE [bridge EXCEPT !.todo = Tail(@)]
  /\ UNCHANGED <<script, session, kind, client, graph, loaded, last>>

\* The core returns and its thread is done.
BridgeReturn ==
  /\ bridge.work = "running"
  /\ bridge.todo = <<>>
  /\ bridge' = [bridge EXCEPT !.work = "finished"]
  /\ UNCHANGED <<script, session, kind, client, db, graph, loaded, last>>

\* What cancelling the await does to the work item, if a running core were
\* torn down with its caller.
CancelWorkStopsCore(work) ==
  IF work \in {"queued", "running"} THEN "dropped" ELSE work

\* What cancelling the await does to the work item: a core still queued is
\* withdrawn, a core already on its thread is out of reach.
CancelWork(work) == IF work = "queued" THEN "dropped" ELSE work

\* The caller's await is cancelled.
BridgeCancel ==
  /\ bridge.caller = "awaiting"
  /\ bridge' = [bridge EXCEPT !.caller = "cancelled", !.work = CancelWork(@)]
  /\ UNCHANGED <<script, session, kind, client, db, graph, loaded, last>>

\* The awaiting caller is resumed with the core's result or exception.
BridgeResume ==
  /\ bridge.caller = "awaiting"
  /\ bridge.work = "finished"
  /\ bridge' = [bridge EXCEPT !.caller = "resumed", !.delivered = TRUE]
  /\ UNCHANGED <<script, session, kind, client, db, graph, loaded, last>>

BridgeWorker == BridgeStart \/ BridgeExec \/ BridgeReturn

NextBridge ==
  \/ MyCreate("c1")
  \/ \E u \in Users : BridgeSubmit("c1", "insert_ticket", u)
  \/ BridgeSubmit("c1", "initialize_data", BaseData)
  \/ BridgeStart
  \/ BridgeExec
  \/ BridgeReturn
  \/ BridgeCancel
  \/ BridgeResume

\* The executor's threads keep running whatever the event loop does.
SpecBridge == Init /\ [][NextBridge]_vars /\ WF_vars(BridgeWorker)

\* ---------------------------------------------------- the flight queries
MaxFlights == 11   \* most flights a load for the flight queries carries

\* The departure times of the loaded flights: around the two midnights of
\* 2024-01-01, and inside the day.
DepartureTimes ==
  << <<2023, 12, 31, 23, 59>>, <<2024, 1, 1, 0, 0>>, <<2024, 1, 1, 8, 0>>,
     <<2024, 1, 1, 10, 0>>, <<2024, 1, 1, 23, 59>>, <<2024, 1, 2, 0, 0>> >>
Pick(choices, k) == choices[((k - 1) % Len(choices)) + 1]

\* The k-th flight of a load: on one morning and one route ("morning"),
\* around the day's boundaries on one route ("boundary"), or around the
\* boundaries on changing routes and spellings ("mixed").
SearchFlight(k, shape) ==
  [id |-> k,
   airline |-> IF shape = "mixed" THEN Pick(<<United, <<"U", "A">>>>, k) ELSE United,
   flight_number |-> IF k % 3 = 1 THEN <<"1", "1", "1", "1">> ELSE <<"2", "2", "2", "2">>,
   departure_airport |-> IF shape = "mixed" THEN Pick(<<SFO, LAX, LOWER(SFO)>>, k) ELSE SFO,
   arrival_airport |-> IF shape = "mixed" THEN Pick(<<LAX, SFO>>, k) ELSE LAX,
   departure_time |-> IF shape = "morning" THEN DepartureTimes[3]
                      ELSE Pick(DepartureTimes, k)]
SearchFlights(n, shape) == [k \in 1..n |-> SearchFlight(k, shape)]
SearchDatasets ==
  {[BaseData EXCEPT !.flights = SearchFlights(n, "morning")] : n \in 1..MaxFlights} \cup
  {[BaseData EXCEPT !.flights = SearchFlights(Len(DepartureTimes), shape)] :
     shape \in {"boundary", "mixed"}}

\* The texts a caller passes: str(date) and the ISO form of a timestamp.
DateText(y, m, d) ==
  TwoDigits(y \div 100) \o TwoDigits(y % 100) \o <<"-">> \o TwoDigits(m) \o <<"-">>
    \o TwoDigits(d)
TimestampText(t) ==
  DateText(t[1], t[2], t[3]) \o <<"T">> \o TwoDigits(t[4]) \o <<":">> \o TwoDigits(t[5])
SearchDates ==
  {DateText(2023, 12, 31), DateText(2024, 1, 1), DateText(2024, 1, 2), DateText(2024, 13, 1)}
DepartureFilters ==
  {None, Some(SFO), Some(LOWER(SFO)), Some(<<"s", "f">>)}
ArrivalFilters == {None, Some(LAX)}
TicketAirlines == {LOWER(United), <<"U", "%">>}
TicketNumbers == {<<"1", "1", "1", "1">>, <<"1", "_", "_", "_">>}
TicketAirports == {LOWER(SFO), <<"s", "f">>}
TicketTimes ==
  {TimestampText(DepartureTimes[3]), TimestampText(DepartureTimes[4]), <<"n", "o", "w">>}

MySearchFlightsByAirports(c, date, departure_airport, arrival_airport, fault) ==
  /\ kind = MYSQL_IDENTIFIER
  /\ Created(c)
  /\ IF ~PoolConnect(c, fault)
     THEN ConnectFailed("search_flights_by_airports", c,
                        <<date, departure_airport, arrival_airport>>)
     ELSE LET r == search_flights_by_airports_sync(db, date, departure_airport,
                                                   arrival_airport) IN
          /\ last' = Call("search_flights_by_airports", c,
                          <<date, departure_airport, arrival_airport>>,
                          r.outcome, r.result, <<>>, TRUE, FALSE)
          /\ UNCHANGED <<script, session, bridge, kind, client, db, graph, loaded>>

MyValidateTicket(c, airline, flight_number, departure_airport, departure_time, fault) ==
  /\ kind = MYSQL_IDENTIFIER
  /\ Created(c)
  /\ IF ~PoolConnect(c, fault)
     THEN ConnectFailed("validate_ticket", c,
                        <<airline, flight_number, departure_airport, departure_time>>)
     ELSE LET r == validate_ticket_sync(db, airline, flight_number, departure_airport,
                                        departure_time) IN
          /\ last' = Call("validate_ticket", c,
                          <<airline, flight_number, departure_airport, departure_time>>,
                          r.outcome, r.result, <<>>, TRUE, FALSE)
          /\ UNCHANGED <<script, session, bridge, kind, client, db, graph, loaded>>

\* The flight queries: one handle, loads of up to MaxFlights flights, and
\* the queries a caller may send.
NextSearch ==
  \/ MyCreate("c1")
  \/ \E data \in SearchDatasets : MyInitializeData("c1", data, "none")
  \/ \E date \in SearchDates, dep \in DepartureFilters, arr \in ArrivalFilters :
       MySearchFlightsByAirports("c1", date, dep, arr, "none")
  \/ \E airline \in TicketAirlines, number \in TicketNumbers, dep \in TicketAirports,
        t \in TicketTimes :
       MyValidateTicket("c1", airline, number, dep, t, "none")

SpecSearch == Init /\ [][NextSearch]_vars

\* ------------------------------------------------- the Neo4j bulk load
\* initialize_data of the Neo4j client, one write transaction at a time.
NeoDeleteAll == [label |-> "*", id |-> 0, props |-> <<>>]
NeoLoadWrites(data) == <<NeoDeleteAll>> \o NeoWrites(data)

\* What a committed write transaction leaves of the graph.
NeoApply(nodes, w) == IF w = NeoDeleteAll THEN <<>> ELSE Append(nodes, w)
Without(q, i) == [k \in 1..(Len(q) - 1) |-> IF k < i THEN q[k] ELSE q[k + 1]]

\* async with self.__driver.session() as session: the call enters its body.
NeoLoadBegin(c, data) ==
  /\ kind = NEO4J_IDENTIFIER
  /\ Created(c)
  /\ session.pc = "idle"
  /\ session' = [pc |-> "open", client |-> c, data |-> Some(data),
                 todo |-> NeoLoadWrites(data), inflight |-> <<>>, events |-> <<>>,
                 err |-> FALSE]
  /\ UNCHANGED <<script, kind, client, db, graph, loaded, last, bridge>>

\* A load that starts its next write without awaiting the one before it.
MayStartWriteUnawaited(pc) == pc \in {"open", "awaiting"}

\* The coroutine starts its next write when it is not suspended in an await.
MayStartWrite(pc) == pc = "open"

\* session.execute_write(f, x) is called: the transaction is started.
NeoTxBegin ==
  /\ MayStartWrite(session.pc)
  /\ session.todo # <<>>
  /\ session' = [session EXCEPT !.pc = "awaiting", !.todo = Tail(@),
                                !.inflight = Append(@, Head(session.todo)),
                                !.events = Append(@, [ev |-> "begin",
                                                      write |-> Head(session.todo)])]
  /\ UNCHANGED <<script, kind, client, db, graph, loaded, last, bridge>>

\* A started transaction commits and the await on it returns.
NeoTxCommit ==
  \E i \in 1..Len(session.inflight) :
    /\ graph' = NeoApply(graph, session.inflight[i])
    /\ session' = [session EXCEPT !.inflight = Without(@, i),
                                  !.pc = IF Len(session.inflight) = 1 THEN "open" ELSE @,
                                  !.events = Append(@, [ev |-> "commit",
                                                        write |-> session.inflight[i]])]
    /\ loaded' = <<>>
    /\ UNCHANGED <<script, kind, client, db, last, bridge>>

\* A started transaction fails: the await raises, the session is left and
\* the writes not yet started are never made.
NeoTxFail ==
  /\ session.inflight # <<>>
  /\ session' = [session EXCEPT !.pc = "idle", !.todo = <<>>, !.inflight = <<>>,
                                !.err = TRUE]
  /\ loaded' = <<>>
  /\ last' = Call("initialize_data", session.client, session.data[1], "DriverError",
                  None, <<>>, TRUE, FALSE)
  /\ UNCHANGED <<script, kind, client, db, graph, bridge>>

\* The last await has returned: the session is left and the call returns.
NeoLoadEnd ==
  /\ session.pc = "open"
  /\ session.todo = <<>>
  /\ session' = [session EXCEPT !.pc = "idle"]
  /\ loaded' = session.data
  /\ last' = Call("initialize_data", session.client, session.data[1], "ok", None,
                  NeoLog(NeoWrites(session.data[1])), TRUE, FALSE)
  /\ UNCHANGED <<script, kind, client, db, graph, bridge>>

NextNeoLoad ==
  \/ NeoCreate("c1")
  \/ \E data \in Datasets : NeoLoadBegin("c1", data)
  \/ NeoTxBegin
  \/ NeoTxCommit
  \/ NeoTxFail
  \/ NeoLoadEnd

SpecNeoLoad == Init /\ [][NextNeoLoad]_vars

\* --------------------------------------------------- run_database_init
\* main() of the initialisation script, statement by statement, on the
\* client handle "c1".
\* parse_config raises: main ends before datastore.create is called.
MainConfigError ==
  /\ script.pc = "start"
  /\ script' = [script EXCEPT !.pc = "done", !.outcome = "raised"]
  /\ UNCHANGED <<kind, client, db, graph, loaded, last, bridge, session>>

\* ds = await datastore.create(cfg.datastore)
MainCreate ==
  /\ script.pc = "start"
  /\ client' = [client EXCEPT !["c1"] = "open"]
  /\ last' = Call("create", "c1", <<>>, "ok", None, <<>>, FALSE, FALSE)
  /\ script' = [script EXCEPT !.pc = "load", !.created = TRUE]
  /\ UNCHANGED <<kind, db, graph, loaded, bridge, session>>

\* The first try block: load_dataset returns the four lists.
MainLoadDataset(data) ==
  /\ script.pc = "load"
  /\ script' = [script EXCEPT !.pc = "initialize", !.data = Some(data)]
  /\ UNCHANGED <<kind, client, db, graph, loaded, last, bridge, session>>

\* The first try block: load_dataset raises.  An Exception is caught, logged
\* and answered with return; a cancellation passes the except clause.
MainLoadDatasetFails(error) ==
  /\ script.pc = "load"
  /\ script' = [script EXCEPT !.pc = "done",
                              !.outcome = IF error = "Exception" THEN "returned"
                                          ELSE "raised"]
  /\ UNCHANGED <<kind, client, db, graph, loaded, last, bridge, session>>

\* The second try block: await ds.initialize_data(...); an Exception it raises
\* is caught and logged, and the finally clause is entered either way.
MainInitializeData(fault) ==
  /\ script.pc = "initialize"
  /\ script' = [script EXCEPT !.pc = "close"]
  /\ LET data == script.data[1] IN
     IF fault # "none"
     THEN /\ last' = Call("initialize_data", "c1", data, "DriverError", None, <<>>,
                          FALSE, FALSE)
          /\ UNCHANGED <<db, graph, loaded>>
     ELSE IF kind = MYSQL_IDENTIFIER
     THEN LET r == initialize_data_sync(db, data) IN
          /\ db' = r.db
          /\ loaded' = IF r.err THEN <<>> ELSE <<data>>
          /\ last' = Call("initialize_data", "c1", data,
                          IF r.err THEN "DriverError" ELSE "ok", None, r.log, TRUE, FALSE)
          /\ UNCHANGED graph
     ELSE /\ graph' = NeoWrites(data)
          /\ loaded' = <<data>>
          /\ last' = Call("initialize_data", "c1", data, "ok", None,
                          NeoLog(NeoWrites(data)), TRUE, FALSE)
          /\ UNCHANGED db
  /\ UNCHANGED <<kind, client, bridge, session>>

\* The finally clause: await ds.close(); what close raises leaves main, and
\* main ends normally when close returns.
MainClose(fault, stopAt) ==
  /\ script.pc = "close"
  /\ IF kind = MYSQL_IDENTIFIER
     THEN /\ fault \in Faults
          /\ LET r == IF fault = "none"
                      THEN DropIndexes(db, <<"amenities", "policies">>, <<>>, stopAt)
                      ELSE [db |-> db, log |-> <<>>, err |-> TRUE]
             IN /\ db' = r.db
                /\ client' = [client EXCEPT !["c1"] = IF r.err THEN @ ELSE "closed"]
                /\ last' = Call("close", "c1", <<>>, IF r.err THEN "DriverError" ELSE "ok",
                                None, r.log, fault = "none", ~r.err)
                /\ script' = [script EXCEPT !.pc = "done", !.closes = @ + 1,
                                            !.outcome = IF r.err THEN "raised"
                                                        ELSE "returned"]
     ELSE /\ fault \in NeoCloseFaults
          /\ stopAt = 0
          /\ client' = [client EXCEPT !["c1"] = IF fault = "none" THEN "closed" ELSE @]
          /\ last' = Call("close", "c1", <<>>, NeoCloseOutcome(fault), None, <<>>,
                          FALSE, fault = "none")
          /\ script' = [script EXCEPT !.pc = "done", !.closes = @ + 1,
                                      !.outcome = IF fault = "none" THEN "returned"
                                                  ELSE "raised"]
          /\ UNCHANGED db
  /\ UNCHANGED <<kind, graph, loaded, bridge, session>>

\* The script is run again, as a new process, against the same database.
MainRunAgain ==
  /\ script.pc = "done"
  /\ script' = NoScript
  /\ client' = [c \in Clients |-> "none"]
  /\ last' = NoCall
  /\ UNCHANGED <<kind, db, graph, loaded, bridge, session>>

NextMain ==
  \/ MainConfigError
  \/ MainCreate
  \/ \E data \in Datasets : MainLoadDataset(data)
  \/ \E error \in {"Exception", "CancelledError"} : MainLoadDatasetFails(error)
  \/ \E fault \in Faults : MainInitializeData(fault)
  \/ \E fault \in Faults \cup NeoCloseFaults, stopAt \in 0..2 : MainClose(fault, stopAt)
  \/ MainRunAgain

SpecMain == Init /\ [][NextMain]_vars

\* ------------------------------------------------------------------ claims
OnMySQL == kind = MYSQL_IDENTIFIER
OnNeo4j == kind = NEO4J_IDENTIFIER
PointLookups == {"get_airport_by_id", "get_amenity", "get_flight"}

\* C1: on the Neo4j client every method of an unsupported family ends with
\* NotImplementedError, whatever the argument and the state of the handle: it
\* returns nothing, raises no driver error and takes no session on the driver.
C1_UnsupportedAlwaysRaises ==
  (OnNeo4j /\ last.op \in NeoUnsupportedMethods) =>
    /\ last.outcome = "NotImplementedError"
    /\ last.result = None
    /\ ~last.conn
    /\ last.log = <<>>

C1_Witness ==
  /\ OnNeo4j
  /\ last.op = "list_tickets"
  /\ last.was = "closed"
  /\ loaded # <<>>
  /\ last.outcome = "NotImplementedError"

\* C2: initialize_data and export_data agree about support: where export_data
\* ends with NotImplementedError (the Neo4j client), initialize_data ends with
\* NotImplementedError too instead of storing the records.
C2_InitializeFailsWhereExportFails ==
  (last.op = "initialize_data" /\ OnNeo4j /\ last.outcome # "DriverError"
     /\ NeoUnsupportedOutcome("export_data") = "NotImplementedError") =>
    last.outcome = "NotImplementedError"

\* C3: on the MySQL client, export_data after a completed initialize_data
\* returns the four lists sorted by ascending id and holding exactly the
\* records that were loaded.
C3_ExportRoundTrip ==
  (OnMySQL /\ last.op = "export_data" /\ loaded # <<>>) =>
    /\ last.outcome = "ok"
    /\ last.result = [f \in DOMAIN loaded[1] |-> SortById(loaded[1][f])]

\* The loaded record a point lookup is about, if there is one.
LoadedFamily(o) ==
  CASE o = "get_airport_by_id" -> loaded[1].airports
    [] o = "get_amenity" -> loaded[1].amenities
    [] o = "get_flight" -> loaded[1].flights
LoadedMatch(o, i) == FetchOne(RowsWithId(LoadedFamily(o), i))
Supported(o) == OnMySQL \/ o = "get_amenity"

IsDdl(e) == e.op \in {"DROP", "CREATE"} /\ e.tbl \in {"amenities", "policies"}
C5_NoDdlWhileIndexExists ==
  \A k \in 1..Len(last.log) : IsDdl(last.log[k]) => ~last.log[k].indexed

\* C6: a second close() on a closed client ends normally or with a shutdown
\* error, and does not take backend resources again.
C6_SecondCloseIsHarmless ==
  (last.op = "close" /\ last.was = "closed") =>
    /\ last.outcome \in {"ok", "ShutdownError"}
    /\ ~last.conn

\* C7: once close() has returned, every later capability call on the client
\* fails and takes no new connection from its pool or driver.
C7_CallsAfterCloseFail ==
  (last.was = "closed" /\ last.op \notin {"close", "none"}) =>
    /\ last.outcome # "ok"
    /\ ~last.conn

\* C8: close() returns normally whatever the driver raises while it releases
\* resources.
C8_CloseSwallowsDriverFailures ==
  last.op = "close" => last.outcome = "ok"

\* C9: every MySQL close() call ends with both index drops issued and the
\* pool disposed.
C9_CloseAlwaysDisposesPool ==
  (OnMySQL /\ last.op = "close") =>
    /\ last.disposed
    /\ Len(last.log) = 2

\* What the core of the bridged call does to the database it found when run
\* on its own, start to end.
CoreAlone == RunStmts(bridge.pre, CoreStmts(bridge.op, bridge.arg), <<>>)

\* C10: cancelling the caller's await does not stop a blocking core that has
\* started: it stays on its thread until it returns or raises, it runs once,
\* the database ends as the core alone leaves it, it does finish, and a
\* cancelled caller is handed neither its result nor its exception.
C10_CancelDoesNotStopCore ==
  /\ [][bridge.work = "running" =>
          /\ bridge'.work \in {"running", "finished"}
          /\ bridge'.runs = bridge.runs]_vars
  /\ [](bridge.work \in {"running", "finished"} => bridge.runs = 1)
  /\ [](bridge.work = "finished" => (db = CoreAlone.db /\ bridge.err = CoreAlone.err))
  /\ [](bridge.caller = "cancelled" => ~bridge.delivered)
  /\ (bridge.work = "running" ~> bridge.work = "finished")

C10_Witness ==
  /\ bridge.op = "insert_ticket"
  /\ bridge.caller = "cancelled"
  /\ bridge.work = "finished"
  /\ ~bridge.err
  /\ bridge.runs = 1
  /\ Len(db.tables["tickets"].rows) = Len(bridge.pre.tables["tickets"].rows) + 1

\* C11: create hands a client back only after connectivity to the backend was
\* established: a create that returned took a connection from the server.
C11_CreateEstablishesConnectivity ==
  (last.op = "create" /\ last.outcome = "ok") => last.conn

\* The stored flights, and whether a flight departs on the calendar date of
\* the text "YYYY-MM-DD".
StoredFlights == db.tables["flights"].rows
OnDate(r, date) == SubSeq(r.departure_time, 1, 3) = ParseDate(date)
Returned(r) == \E k \in 1..Len(last.result) : last.result[k] = r

\* C13: search_flights_by_airports returns only stored flights that depart
\* on the given date (from 00:00 of it, before 00:00 of the next day), each
\* once and at most 10 of them, and all of the flights that depart on the
\* date and pass the airport filters when these are at most 10.
C13_DateWindowAndLimit ==
  (last.op = "search_flights_by_airports" /\ last.outcome = "ok") =>
    LET matching ==
          SelectSeq(StoredFlights,
                    LAMBDA r : /\ OnDate(r, last.arg[1])
                               /\ AirportFilter(r.departure_airport, last.arg[2])
                               /\ AirportFilter(r.arrival_airport, last.arg[3]))
    IN /\ \A k \in 1..Len(last.result) :
            /\ OnDate(last.result[k], last.arg[1])
            /\ \E j \in 1..Len(StoredFlights) : StoredFlights[j] = last.result[k]
            /\ \A j \in 1..Len(last.result) : last.result[j] = last.result[k] => j = k
       /\ Len(last.result) <= 10
       /\ Len(matching) <= 10 => \A k \in 1..Len(matching) : Returned(matching[k])

\* The flight of 2024-01-01T08:00 is returned for 2024-01-01 while the
\* stored flights of 2023-12-31T23:59 and 2024-01-02T00:00 are not.
C13_Witness ==
  /\ last.op = "search_flights_by_airports"
  /\ last.outcome = "ok"
  /\ last.arg = <<DateText(2024, 1, 1), Some(SFO), None>>
  /\ \E k \in 1..Len(last.result) : last.result[k].departure_time = <<2024, 1, 1, 8, 0>>
  /\ \E j \in 1..Len(StoredFlights) :
       StoredFlights[j].departure_time = <<2023, 12, 31, 23, 59>>
  /\ \E j \in 1..Len(StoredFlights) :
       StoredFlights[j].departure_time = <<2024, 1, 2, 0, 0>>
  /\ Len(last.result) = 4

\* a occurs in b as a run of consecutive characters.
Substring(a, b) ==
  \E i \in 0..(Len(b) - Len(a)) : SubSeq(b, i + 1, i + Len(a)) = a
SubstringFilter(v, col) == v = None \/ Substring(LOWER(v[1]), LOWER(col))

\* C14: a stored flight departing on the date is returned exactly when each
\* supplied airport filter occurs, ignoring case, as a substring of the
\* flight's airport code; an unset filter matches every flight.
C14_FiltersAreSubstringMatches ==
  (last.op = "search_flights_by_airports" /\ last.outcome = "ok"
     /\ Len(StoredFlights) <= 10) =>
    \A j \in 1..Len(StoredFlights) :
      OnDate(StoredFlights[j], last.arg[1]) =>
        (Returned(StoredFlights[j]) <=>
           /\ SubstringFilter(last.arg[2], StoredFlights[j].departure_airport)
           /\ SubstringFilter(last.arg[3], StoredFlights[j].arrival_airport))

\* A stored flight equals the arguments of validate_ticket: airline, flight
\* number and departure airport ignoring case, the timestamp exactly.
EqualsTicket(r, a) ==
  /\ LOWER(r.airline) = LOWER(a[1])
  /\ LOWER(r.flight_number) = LOWER(a[2])
  /\ LOWER(r.departure_airport) = LOWER(a[3])
  /\ r.departure_time = CastDatetime(a[4])

\* C15: validate_ticket returns a flight exactly when some stored flight
\* equals the arguments, the flight returned is such a flight, and it ends
\* with not-found, not an error, when there is none.
C15_ValidateTicketMatchesEqualFlight ==
  (last.op = "validate_ticket" /\ ~Missing(db, {"flights"})) =>
    /\ last.outcome = "ok"
    /\ last.result # None <=>
         \E j \in 1..Len(StoredFlights) : EqualsTicket(StoredFlights[j], last.arg)
    /\ last.result # None => EqualsTicket(last.result[1], last.arg)

StoredTickets(d) == d.tables["tickets"].rows
TicketsOf(d, u) == SelectSeq(StoredTickets(d), LAMBDA t : t.user_id = u)

\* C16: the tickets are an append-only multiset between bulk loads: a
\* completed insert_ticket adds exactly its ticket to those stored, also when
\* an equal ticket is there already; a completed initialize_data leaves no
\* ticket; no other call and no failed insert_ticket changes the tickets; and
\* list_tickets(u) returns every stored ticket of user u, one result per
\* ticket, and no ticket of another user.
C16_TicketsAppendOnly ==
  /\ [][(OnMySQL /\ last'.op = "insert_ticket" /\ last'.outcome = "ok") =>
          /\ StoredTickets(db') = Append(StoredTickets(db), Ticket(last'.arg))
          /\ db'.tables["tickets"].exists]_vars
  /\ [][(OnMySQL /\ last'.op = "initialize_data" /\ last'.outcome = "ok") =>
          db'.tables["tickets"] = EmptyTable]_vars
  /\ [][(OnMySQL /\ (last'.op # "initialize_data")
           /\ (last'.op = "insert_ticket" => last'.outcome # "ok")) =>
          db'.tables["tickets"] = db.tables["tickets"]]_vars
  /\ []((OnMySQL /\ last.op = "list_tickets" /\ last.outcome = "ok") =>
          /\ Len(last.result) = Len(TicketsOf(db, last.arg))
          /\ \A k \in 1..Len(last.result) : last.result[k] = Ticket(last.arg))

\* The same ticket inserted twice is listed twice.
C16_Witness ==
  /\ OnMySQL
  /\ last.op = "list_tickets"
  /\ last.arg = "u1"
  /\ last.outcome = "ok"
  /\ last.result = <<Ticket("u1"), Ticket("u1")>>

\* C17: no two stored records of one table or label have the same id, on
\* either backend and whatever lists initialize_data was given.
C17_IdsUniquePerTable ==
  /\ \A t \in {"airports", "amenities", "flights", "policies"} :
       \A j, k \in 1..Len(db.tables[t].rows) :
         db.tables[t].rows[j].id = db.tables[t].rows[k].id => j = k
  /\ \A j, k \in 1..Len(graph) :
       (graph[j].label = graph[k].label /\ graph[j].id = graph[k].id) => j = k

\* The embedding-bearing families a backend loads, and the entries of a
\* load's statement log that recreate, fill and index a family.
EmbeddingFamilies == IF OnMySQL THEN {"amenities", "policies"} ELSE {"Policy"}
IsRecreate(e, f) == IF OnMySQL THEN e.op = "CREATE" /\ e.tbl = f ELSE e.op = "delete_all"
IsInsert(e, f) == e.tbl = f /\ e.op = (IF OnMySQL THEN "INSERT" ELSE "CREATE")
IsIndexBuild(e, f) == e.tbl = f /\ e.op = "CREATE_INDEX"

\* C18: a completed initialize_data has issued, for every embedding-bearing
\* family the backend loads, an index build, and every index build of the
\* family comes after the family was recreated and after all its inserts.
C18_IndexBuiltAfterInserts ==
  (last.op = "initialize_data" /\ last.outcome = "ok") =>
    \A f \in EmbeddingFamilies :
      /\ \E b \in 1..Len(last.log) : IsIndexBuild(last.log[b], f)
      /\ \A b \in 1..Len(last.log) :
           IsIndexBuild(last.log[b], f) =>
             \A k \in 1..Len(last.log) :
               (IsRecreate(last.log[k], f) \/ IsInsert(last.log[k], f)) => k < b

\* C19: every operation of the MySQL client, close included, does its
\* driver work on a worker thread and none of it on the event-loop thread.
C19_DriverCallsOnWorkerThread ==
  (OnMySQL /\ last.op # "none") => last.thread = "worker"

\* C20: within one Neo4j initialize_data call at most one write transaction
\* is in flight, every write is started only after the one before it has
\* committed, the delete-all first, and the writes are made in the order
\* airports, amenities, flights, policies, each list in input order; a call
\* that returns leaves exactly these records, in this order.
C20_NeoWritesSequential ==
  session.data # None =>
    /\ Len(session.inflight) <= 1
    /\ \A k \in 1..Len(session.events) :
         /\ session.events[k].ev = (IF k % 2 = 1 THEN "begin" ELSE "commit")
         /\ session.events[k].write = NeoLoadWrites(session.data[1])[(k + 1) \div 2]
    /\ (session.pc = "idle" /\ ~session.err) =>
         /\ Len(session.events) = 2 * Len(NeoLoadWrites(session.data[1]))
         /\ graph = NeoWrites(session.data[1])

\* A load of two policies over the graph of an earlier load has returned.
C20_Witness ==
  /\ session.pc = "idle"
  /\ ~session.err
  /\ session.data = Some(Dataset(BaseIds, BaseIds, BaseIds, Descending(2)))
  /\ Len(session.events) = 12
  /\ graph = NeoWrites(Dataset(BaseIds, BaseIds, BaseIds, Descending(2)))

\* C21: whenever main has ended after datastore.create returned a client,
\* it has called ds.close() exactly once.
C21_MainClosesExactlyOnce ==
  (script.pc = "done" /\ script.created) => script.closes = 1

====
